---- MODULE Spec2Model ----
(***************************************************************************)
(* Verification model of the AlphaBack verify service (Java track):        *)
(* the ReportGenerator accumulator, the JAR structure checker, the Java    *)
(* metadata validator, the bytecode scanner and the lambda_handler         *)
(* pipeline that sequences them.                                           *)
(*                                                                         *)
(* Strings the code inspects (paths, class names, keys) are sequences of   *)
(* tokens: each token stands for a run of characters the code never looks  *)
(* inside, so startswith / endswith / in / replace / split are the usual   *)
(* sequence operations.  Strings the code only stores (check names,        *)
(* messages) are TLA+ strings; interpolated details of a message are left  *)
(* out of it.                                                              *)
(***************************************************************************)
EXTENDS Integers, Sequences, FiniteSets, TLC

VARIABLES
    security_config,  \* the policy loaded at cold start (config/allowed_imports.json)
    pc,               \* position of the run in lambda_handler / _complete_validation
    event,            \* the S3 event handed to lambda_handler
    checks,           \* ReportGenerator.checks: insertion-ordered name -> result
    start_time,       \* ReportGenerator.start_time (None or set)
    end_time,         \* ReportGenerator.end_time (None or set)
    extracted_files,  \* result of extract_jar: None or the ordered path -> bytes map
    model_id,         \* local model_id of lambda_handler
    model_class,      \* local model_class of lambda_handler
    status,           \* status argument given to _complete_validation
    validation_report,\* the report generated in _complete_validation
    response,         \* the dictionary lambda_handler returns
    calls,            \* collaborator and gate calls made so far, in order
    tables            \* the items written to the two DynamoDB tables, in order

vars == <<security_config, pc, event, checks, start_time, end_time, extracted_files, model_id,
          model_class, status, validation_report, response, calls, tables>>

None == "None"

-----------------------------------------------------------------------------
(* Bounds *)

\* Largest number of entries of an archive.
MaxFiles == 3

\* validation_config['max_file_size_bytes'], scaled down; declared sizes range
\* over 0 .. MaxFileSizeBytes + 1.
MaxFileSizeBytes == 2

\* the longest method table of a class handed to the scanner on its own
MaxMethods == 2

\* the largest number of statements of a source handed to CodeScanner
MaxStatements == 2

-----------------------------------------------------------------------------
(* String operations on token sequences *)

\* str.startswith
StartsWith(s, pre) ==
    /\ Len(pre) <= Len(s)
    /\ SubSeq(s, 1, Len(pre)) = pre

\* str.endswith
EndsWith(s, suf) ==
    /\ Len(suf) <= Len(s)
    /\ SubSeq(s, Len(s) - Len(suf) + 1, Len(s)) = suf

\* the `in` operator on two strings
Contains(s, sub) ==
    \E i \in 0..(Len(s) - Len(sub)) : SubSeq(s, i + 1, i + Len(sub)) = sub

\* str.replace for a one-token pattern; an empty replacement removes the token
RECURSIVE Replace(_, _, _)
Replace(s, old, new) ==
    IF s = <<>> THEN <<>>
    ELSE (IF Head(s) = old THEN new ELSE <<Head(s)>>) \o Replace(Tail(s), old, new)

\* str.split(sep)[-1]
RECURSIVE SplitLast(_, _)
SplitLast(s, sep) ==
    IF \E i \in 1..Len(s) : s[i] = sep
    THEN SplitLast(Tail(s), sep)
    ELSE s

\* str.strip() with " " the only whitespace token
RECURSIVE LStrip(_)
LStrip(s) == IF s # <<>> /\ Head(s) = " " THEN LStrip(Tail(s)) ELSE s

RECURSIVE RStrip(_)
RStrip(s) ==
    IF s # <<>> /\ s[Len(s)] = " " THEN RStrip(SubSeq(s, 1, Len(s) - 1)) ELSE s

Strip(s) == RStrip(LStrip(s))

-----------------------------------------------------------------------------
(* ReportGenerator *)

\* A value of self.checks[name]; a key the dictionary lacks is None.
CheckResult(passed, error, warning) ==
    [passed |-> passed, error |-> error, warning |-> warning]

HasCheck(chk, name) == \E i \in 1..Len(chk) : chk[i].name = name

IndexOf(chk, name) == CHOOSE i \in 1..Len(chk) : chk[i].name = name

\* a list that every write appends to
SetCheck_append(chk, name, result) ==
    Append(chk, [name |-> name, result |-> result])

\* self.checks[name] = result : an existing key keeps its position
SetCheck(chk, name, result) ==
    IF HasCheck(chk, name)
    THEN [chk EXCEPT ![IndexOf(chk, name)] = [name |-> name, result |-> result]]
    ELSE Append(chk, [name |-> name, result |-> result])

\* add_check_passed that starts the dictionary afresh
add_check_passed_clearing(chk, check_name) ==
    <<[name |-> check_name, result |-> CheckResult(TRUE, None, None)]>>

add_check_passed(chk, check_name) ==
    SetCheck(chk, check_name, CheckResult(TRUE, None, None))

add_check_failed(chk, check_name, error) ==
    SetCheck(chk, check_name, CheckResult(FALSE, error, None))

add_error(chk, check_name, error_message) ==
    add_check_failed(chk, check_name, error_message)

add_warning(chk, check_name, message) ==
    IF HasCheck(chk, check_name)
    THEN [chk EXCEPT ![IndexOf(chk, check_name)].result.warning = message]
    ELSE Append(chk, [name |-> check_name,
                      result |-> CheckResult(TRUE, None, message)])

\* is_verified without its empty-dictionary guard
is_verified_vacuous(chk) ==
    \A i \in 1..Len(chk) : chk[i].result.passed

is_verified(chk) ==
    IF chk = <<>> THEN FALSE
    ELSE \A i \in 1..Len(chk) : chk[i].result.passed

\* f"{check_name}: {error_msg}"
FormatError(check_name, error_msg) == <<check_name, ": ", error_msg>>

\* get_overall_errors without its test of "passed"
RECURSIVE get_overall_errors_all(_)
get_overall_errors_all(chk) ==
    IF chk = <<>> THEN <<>>
    ELSE LET c == Head(chk)
         IN <<FormatError(c.name,
                          IF c.result.error = None THEN "Check failed"
                          ELSE c.result.error)>> \o get_overall_errors_all(Tail(chk))

RECURSIVE get_overall_errors(_)
get_overall_errors(chk) ==
    IF chk = <<>> THEN <<>>
    ELSE LET c == Head(chk)
             rest == get_overall_errors(Tail(chk))
         IN IF ~c.result.passed
            THEN <<FormatError(c.name,
                               IF c.result.error = None THEN "Check failed"
                               ELSE c.result.error)>> \o rest
            ELSE rest

\* 0 unless both times are set; the elapsed milliseconds are not modelled
get_execution_time_ms(st, et) ==
    IF st # None /\ et # None THEN "elapsed" ELSE "0"

generate_report(chk, st, et, mid) ==
    [modelId |-> mid,
     verified |-> is_verified(chk),
     checks |-> chk,
     overallErrors |-> get_overall_errors(chk),
     executionTimeMs |-> get_execution_time_ms(st, et),
     timestamp |-> "utcnow"]

-----------------------------------------------------------------------------
(* Configuration read at cold start (config/*.json) *)

required_files == {<<"metadata", ".json">>}

required_metadata_fields == <<"model_id", "version", "author", "model_class">>

required_interface == <<"com", "/", "ttsudio", "/", "alphaback", "/", "Model">>

required_method_name == "simulateStep"

required_method_signature == "(Lcom/ttsudio/alphaback/State;)Ljava/util/List;"

\* the policy the scanner is constructed with in the tests
TestSecurityConfig ==
    [blocked_packages |->
        { <<"java", "/", "io">>, <<"java", "/", "net">>,
          <<"java", "/", "lang", "/", "reflect">> },
     blocked_classes |->
        { <<"java", "/", "lang", "/", "Runtime">>,
          <<"java", "/", "lang", "/", "System">> },
     blocked_methods |->
        { <<"java", "/", "lang", "/", "Runtime", ".", "exec">>,
          <<"java", "/", "lang", "/", "System", ".", "exit">> },
     blocked_builtins |-> {"eval", "exec", "__import__", "open"}]

\* the policies a scanner is constructed with on its own: that of the tests,
\* one that blocks System.exit without blocking the class, and one whose
\* blocked built-ins do not name __import__
SecurityConfigs ==
    {TestSecurityConfig,
     [TestSecurityConfig EXCEPT
         !.blocked_classes = { <<"java", "/", "lang", "/", "Runtime">> }],
     [TestSecurityConfig EXCEPT !.blocked_builtins = {"eval", "exec", "open"}]}

blocked_packages == security_config.blocked_packages

blocked_classes == security_config.blocked_classes

blocked_methods == security_config.blocked_methods

-----------------------------------------------------------------------------
(* File contents.  A byte string is described by what the two parsers make *)
(* of it: kind "class" parses as a class file (and is not UTF-8 text),     *)
(* kind "json" is text json.loads accepts, kind "text" is any other text,  *)
(* kind "empty" is b"".  NoBytes is the None a lookup returns.             *)

\* a value of the parsed metadata document; type "missing" is an absent key
JsonValue(type, value) == [type |-> type, value |-> value]
Missing == JsonValue("missing", <<>>)
Str(tokens) == JsonValue("str", tokens)
Num == JsonValue("number", <<>>)

FieldNames == {"model_id", "version", "author", "model_class"}

\* json.loads result: a dictionary, or a bare number
JsonDict(mid, version, author, mclass) ==
    [type |-> "dict",
     fields |-> [f \in FieldNames |->
                    CASE f = "model_id" -> mid
                      [] f = "version" -> version
                      [] f = "author" -> author
                      [] f = "model_class" -> mclass]]
JsonNumber == [type |-> "number", fields |-> [f \in FieldNames |-> Missing]]
NoDoc == [type |-> "none", fields |-> [f \in FieldNames |-> Missing]]

ClassBytes(interfaces, methods, constants) ==
    [kind |-> "class", interfaces |-> interfaces, methods |-> methods,
     constants |-> constants, doc |-> NoDoc]

JsonBytes(doc) ==
    [kind |-> "json", interfaces |-> <<>>, methods |-> <<>>,
     constants |-> <<>>, doc |-> doc]

TextBytes ==
    [kind |-> "text", interfaces |-> <<>>, methods |-> <<>>,
     constants |-> <<>>, doc |-> NoDoc]

EmptyBytes ==
    [kind |-> "empty", interfaces |-> <<>>, methods |-> <<>>,
     constants |-> <<>>, doc |-> NoDoc]

NoBytes ==
    [kind |-> "None", interfaces |-> <<>>, methods |-> <<>>,
     constants |-> <<>>, doc |-> NoDoc]

\* bool(bytes): None and b"" are falsy
Truthy(content) == content.kind \notin {"None", "empty"}

\* ClassFile(io.BytesIO(class_bytes)) succeeds
ParsesAsClass(content) == content.kind = "class"

\* constant-pool entries
ConstantClass(name) == [kind |-> "Class", class_name |-> name, member |-> ""]
MethodReference(owner, name) == [kind |-> "Method", class_name |-> owner, member |-> name]
FieldReference(owner, name) == [kind |-> "Field", class_name |-> owner, member |-> name]

-----------------------------------------------------------------------------
(* JarStructureChecker *)

\* check_file_size with the ceiling itself rejected
check_file_size_strict(chk, file_size) ==
    IF file_size >= MaxFileSizeBytes
    THEN [ok |-> FALSE, checks |-> add_error(chk, "FILE_TOO_LARGE",
                                   "JAR file size exceeds maximum allowed")]
    ELSE [ok |-> TRUE, checks |-> add_check_passed(chk, "file_size_validation")]

check_file_size(chk, file_size) ==
    IF file_size > MaxFileSizeBytes
    THEN [ok |-> FALSE, checks |-> add_error(chk, "FILE_TOO_LARGE",
                                   "JAR file size exceeds maximum allowed")]
    ELSE [ok |-> TRUE, checks |-> add_check_passed(chk, "file_size_validation")]

\* extract_jar: None for bytes zipfile rejects, else the archive's entries
NoneFiles == [none |-> TRUE, files |-> <<>>]
Dict(files) == [none |-> FALSE, files |-> files]

extract_jar(file_content) ==
    IF file_content.zip THEN Dict(file_content.entries) ELSE NoneFiles

Paths(files) == {files[i].path : i \in 1..Len(files)}

\* validate_structure that returns False without recording anything
validate_structure_silent(chk, files) ==
    LET missing_files ==
            {r \in required_files : ~\E f \in Paths(files) : EndsWith(f, r)}
        class_files == {f \in Paths(files) : EndsWith(f, <<".class">>)}
    IN IF missing_files # {} \/ class_files = {}
       THEN [ok |-> FALSE, checks |-> chk]
       ELSE [ok |-> TRUE, checks |-> add_check_passed(chk, "jar_structure_validation")]

validate_structure(chk, files) ==
    LET missing_files ==
            {r \in required_files : ~\E f \in Paths(files) : EndsWith(f, r)}
        class_files == {f \in Paths(files) : EndsWith(f, <<".class">>)}
    IN IF missing_files # {}
       THEN [ok |-> FALSE, checks |-> add_error(chk, "MISSING_REQUIRED_FILES",
                                      "JAR package missing required files")]
       ELSE IF class_files = {}
       THEN [ok |-> FALSE, checks |-> add_error(chk, "NO_CLASS_FILES",
                                      "JAR package contains no .class files")]
       ELSE [ok |-> TRUE, checks |-> add_check_passed(chk, "jar_structure_validation")]

\* first entry, in archive order, whose path ends with the suffix
RECURSIVE FirstEndingWith(_, _)
FirstEndingWith(files, suffix) ==
    IF files = <<>> THEN NoBytes
    ELSE IF EndsWith(Head(files).path, suffix) THEN Head(files).content
    ELSE FirstEndingWith(Tail(files), suffix)

get_metadata_file(files) == FirstEndingWith(files, <<"metadata", ".json">>)

find_model_class(files, model_class_name) ==
    FirstEndingWith(files, Replace(model_class_name, ".", <<"/">>) \o <<".class">>)

find_all_class_files(files) ==
    SelectSeq(files, LAMBDA f : EndsWith(f.path, <<".class">>))

-----------------------------------------------------------------------------
(* JavaMetadataValidator *)

\* character classes of tokens: str.isalpha / str.isalnum
PunctTokens == {".", "/", " ", "-", ".class", ".jar", ".json"}
DigitTokens == {"9"}
IsAlphaStart(tok) == tok \notin PunctTokens /\ tok \notin DigitTokens /\ tok # "_"
IsAlnum(tok) == tok \notin PunctTokens /\ tok # "_"

\* str.split('.')
RECURSIVE SplitDots(_, _)
SplitDots(s, cur) ==
    IF s = <<>> THEN <<cur>>
    ELSE IF Head(s) = "." THEN <<cur>> \o SplitDots(Tail(s), <<>>)
    ELSE SplitDots(Tail(s), Append(cur, Head(s)))

_is_valid_java_class_name(class_name) ==
    LET parts == SplitDots(class_name, <<>>)
    IN /\ \E i \in 1..Len(class_name) : class_name[i] = "."
       /\ \A p \in 1..Len(parts) :
            /\ parts[p] # <<>>
            /\ (IsAlphaStart(parts[p][1]) \/ parts[p][1] = "_")
            /\ \A i \in 1..Len(parts[p]) :
                  IsAlnum(parts[p][i]) \/ parts[p][i] = "_"

\* isinstance(v, str) and v.strip() is non-empty
NonEmptyStr(v) == v.type = "str" /\ Strip(v.value) # <<>>

\* the type and content checks of validate, in source order
ValidateFields(chk, fields) ==
    LET c1 == IF ~NonEmptyStr(fields["model_id"])
              THEN add_error(chk, "INVALID_MODEL_ID",
                             "model_id must be a non-empty string")
              ELSE chk
        c2 == IF fields["version"].type # "str"
              THEN add_error(c1, "INVALID_VERSION", "version must be a string")
              ELSE c1
        c3 == IF ~NonEmptyStr(fields["author"])
              THEN add_error(c2, "INVALID_AUTHOR",
                             "author must be a non-empty string")
              ELSE c2
        c4 == IF ~NonEmptyStr(fields["model_class"])
              THEN add_error(c3, "INVALID_MODEL_CLASS",
                             "model_class must be a non-empty string")
              ELSE IF ~_is_valid_java_class_name(fields["model_class"].value)
              THEN add_error(c3, "INVALID_MODEL_CLASS_FORMAT",
                             "model_class is not a valid Java class name")
              ELSE c3
        validation_passed ==
            /\ NonEmptyStr(fields["model_id"])
            /\ fields["version"].type = "str"
            /\ NonEmptyStr(fields["author"])
            /\ NonEmptyStr(fields["model_class"])
            /\ _is_valid_java_class_name(fields["model_class"].value)
    IN IF validation_passed
       THEN [outcome |-> "True", checks |-> add_check_passed(chk, "metadata_validation")]
       ELSE [outcome |-> "False", checks |-> c4]

\* validate: outcome "raise" is the TypeError of `field not in metadata`
\* on a document that is not a container
validate(chk, content) ==
    IF content.kind # "json"
    THEN [outcome |-> "False",
          checks |-> add_error(chk, "INVALID_JSON", "metadata.json is not valid JSON")]
    ELSE IF content.doc.type # "dict"
    THEN [outcome |-> "raise", checks |-> chk]
    ELSE IF \E i \in 1..Len(required_metadata_fields) :
                content.doc.fields[required_metadata_fields[i]].type = "missing"
    THEN [outcome |-> "False",
          checks |-> add_error(chk, "MISSING_METADATA_FIELDS",
                               "Missing required fields in metadata.json")]
    ELSE ValidateFields(chk, content.doc.fields)

\* metadata.get(key): None (the empty string here) for an absent key
extract_field(content, key) ==
    IF content.kind # "json" \/ content.doc.fields[key].type # "str"
    THEN <<>>
    ELSE content.doc.fields[key].value

extract_model_id(content) == extract_field(content, "model_id")

extract_model_class(content) == extract_field(content, "model_class")

-----------------------------------------------------------------------------
(* JavaBytecodeScanner *)

\* the violation kinds _check_class_references collects, in pool order
RECURSIVE ClassViolations(_)
ClassViolations(constants) ==
    IF constants = <<>> THEN <<>>
    ELSE LET const == Head(constants)
             rest == ClassViolations(Tail(constants))
         IN IF const.kind # "Class" THEN rest
            ELSE IF const.class_name \in blocked_classes
            THEN <<"blocked_class">> \o rest
            ELSE IF \E blocked_pkg \in blocked_packages :
                        StartsWith(const.class_name, blocked_pkg)
            THEN <<"blocked_package">> \o rest
            ELSE rest

RECURSIVE ReportClassViolations(_, _)
ReportClassViolations(chk, violations) ==
    IF violations = <<>> THEN chk
    ELSE ReportClassViolations(
            IF Head(violations) = "blocked_class"
            THEN add_error(chk, "DISALLOWED_CLASS_REFERENCE",
                           "Reference to blocked class found")
            ELSE add_error(chk, "DISALLOWED_PACKAGE_REFERENCE",
                           "Reference to blocked package class found"),
            Tail(violations))

\* _check_class_references with the package-prefix test left out
_check_class_references_exact(chk, cf) ==
    LET violations == SelectSeq(ClassViolations(cf.constants),
                                LAMBDA v : v = "blocked_class")
    IN [ok |-> Len(violations) = 0,
        checks |-> ReportClassViolations(chk, violations)]

_check_class_references(chk, cf) ==
    LET violations == ClassViolations(cf.constants)
    IN [ok |-> Len(violations) = 0,
        checks |-> ReportClassViolations(chk, violations)]

\* f"{class_name}.{method_name}"
FullMember(const) == const.class_name \o <<".", const.member>>

MethodViolations(constants) ==
    SelectSeq(constants,
              LAMBDA const : const.kind = "Method" /\ FullMember(const) \in blocked_methods)

_check_method_calls(chk, cf) ==
    LET violations == MethodViolations(cf.constants)
    IN [ok |-> Len(violations) = 0,
        checks |-> IF Len(violations) = 0 THEN chk
                   ELSE add_error(chk, "DISALLOWED_METHOD_CALL",
                                  "Call to blocked method found")]

suspicious_fields ==
    { <<"java", "/", "lang", "/", "System", ".", "out">>,
      <<"java", "/", "lang", "/", "System", ".", "err">>,
      <<"java", "/", "lang", "/", "System", ".", "in">> }

\* _check_field_access with a watch-list hit treated as a violation
_check_field_access_fatal(chk, cf) ==
    LET hits == SelectSeq(cf.constants,
                          LAMBDA const : const.kind = "Field"
                                         /\ FullMember(const) \in suspicious_fields)
    IN [ok |-> Len(hits) = 0,
        checks |-> IF Len(hits) = 0 THEN chk
                   ELSE add_error(chk, "SUSPICIOUS_FIELD_ACCESS",
                                  "Access to field detected")]

_check_field_access(chk, cf) ==
    LET hits == SelectSeq(cf.constants,
                          LAMBDA const : const.kind = "Field"
                                         /\ FullMember(const) \in suspicious_fields)
    IN [ok |-> TRUE,
        checks |-> IF Len(hits) = 0 THEN chk
                   ELSE add_warning(chk, "SUSPICIOUS_FIELD_ACCESS",
                                    "Access to field detected (may be for logging)")]

scan_class_file(chk, class_bytes) ==
    IF ~ParsesAsClass(class_bytes)
    THEN [ok |-> FALSE,
          checks |-> add_error(chk, "INVALID_CLASS_FILE", "Cannot parse class")]
    ELSE LET r1 == _check_class_references(chk, class_bytes)
             r2 == _check_method_calls(r1.checks, class_bytes)
             r3 == _check_field_access(r2.checks, class_bytes)
             violations_found == ~r1.ok \/ ~r2.ok \/ ~r3.ok
         IN [ok |-> ~violations_found,
             checks |-> IF ~violations_found
                        THEN add_check_passed(r3.checks, "bytecode_safety_scan")
                        ELSE r3.checks]

check_implements_interface(chk, class_bytes) ==
    IF ~ParsesAsClass(class_bytes)
    THEN [ok |-> FALSE,
          checks |-> add_error(chk, "INVALID_CLASS_FILE", "Cannot parse class file")]
    ELSE IF \E i \in 1..Len(class_bytes.interfaces) :
                class_bytes.interfaces[i] = required_interface
    THEN [ok |-> TRUE, checks |-> add_check_passed(chk, "interface_implementation")]
    ELSE [ok |-> FALSE,
          checks |-> add_error(chk, "MISSING_REQUIRED_INTERFACE",
                               "Class does not implement required interface")]

\* the first method of the table with the required name decides
check_has_method(chk, class_bytes) ==
    LET named == SelectSeq(class_bytes.methods,
                           LAMBDA m : m.name = required_method_name)
    IN IF ~ParsesAsClass(class_bytes)
       THEN [ok |-> FALSE, checks |-> chk]
       ELSE IF named = <<>>
       THEN [ok |-> FALSE,
             checks |-> add_error(chk, "MISSING_REQUIRED_METHOD",
                                  "Class does not have required method")]
       ELSE IF Head(named).descriptor = required_method_signature
       THEN [ok |-> TRUE, checks |-> add_check_passed(chk, "method_signature_validation")]
       ELSE [ok |-> FALSE,
             checks |-> add_error(chk, "INVALID_METHOD_SIGNATURE",
                                  "Method has wrong signature")]

-----------------------------------------------------------------------------
(* Inputs: events, archives and their entries *)

ObjectKey == <<"models", "/", "Algo", ".jar">>

\* shape "ok" is a full S3 event; the others lack the named part
EventShapes == {"ok", "no_Records", "empty_Records", "no_bucket", "no_key", "no_size"}

Events ==
    [shape : EventShapes, bucket : {"test-bucket"}, key : {ObjectKey},
     size : 0..(MaxFileSizeBytes + 1)]

\* lines 65-68: the exception the subscripts raise, or "ok"
ParseEvent(ev) ==
    CASE ev.shape = "ok" -> "ok"
      [] ev.shape = "empty_Records" -> "IndexError"
      [] OTHER -> "KeyError"

JavaUtilList == <<"java", "/", "util", "/", "List">>
JavaLangRuntime == <<"java", "/", "lang", "/", "Runtime">>
JavaIoFile == <<"java", "/", "io", "/", "File">>

BenignPool == <<ConstantClass(JavaUtilList), MethodReference(JavaUtilList, "add")>>
ExecPool == BenignPool \o <<ConstantClass(JavaLangRuntime),
                            MethodReference(JavaLangRuntime, "exec")>>

SimulateStep == [name |-> required_method_name, descriptor |-> required_method_signature]

GoodModel == ClassBytes(<<required_interface>>, <<SimulateStep>>, BenignPool)
NoInterface == ClassBytes(<<>>, <<SimulateStep>>, BenignPool)
WrongSignature ==
    ClassBytes(<<required_interface>>,
               <<[name |-> required_method_name, descriptor |-> "()V"]>>, BenignPool)
RefBlockedClass ==
    ClassBytes(<<required_interface>>, <<SimulateStep>>,
               BenignPool \o <<ConstantClass(JavaLangRuntime)>>)
RefBlockedPackage ==
    ClassBytes(<<required_interface>>, <<SimulateStep>>,
               BenignPool \o <<ConstantClass(JavaIoFile)>>)
CallsBlockedMethod == ClassBytes(<<required_interface>>, <<SimulateStep>>, ExecPool)
HelperBenign == ClassBytes(<<>>, <<>>, BenignPool)
HelperExec == ClassBytes(<<>>, <<>>, ExecPool)

ModelClassName == <<"com", ".", "ex", ".", "Algo">>

MetaGood ==
    JsonBytes(JsonDict(Str(<<"m1">>), Str(<<"1", ".", "0">>), Str(<<"alice">>),
                       Str(ModelClassName)))
MetaNoClass ==
    JsonBytes(JsonDict(Str(<<"m1">>), Str(<<"1", ".", "0">>), Str(<<"alice">>), Missing))
MetaBadClass ==
    JsonBytes(JsonDict(Str(<<"m1">>), Str(<<"1", ".", "0">>), Str(<<"alice">>),
                       Str(<<"Algo">>)))
MetaNumber == JsonBytes(JsonNumber)

MetaPath == <<"metadata", ".json">>
MainPath == <<"com", "/", "ex", "/", "Algo", ".class">>
HelperPath == <<"com", "/", "ex", "/", "Helper", ".class">>
EvilModelPath == <<"com", "/", "ex", "/", "Evil", "Model", ".class">>

File(path, content) == [path |-> path, content |-> content]

Files ==
    {File(MetaPath, c) : c \in {MetaGood, MetaNoClass, MetaBadClass, MetaNumber,
                                TextBytes, EmptyBytes, GoodModel}}
    \cup {File(MainPath, c) : c \in {GoodModel, NoInterface, WrongSignature,
                                     RefBlockedClass, RefBlockedPackage,
                                     CallsBlockedMethod, TextBytes}}
    \cup {File(HelperPath, c) : c \in {HelperBenign, HelperExec, TextBytes}}
    \cup {File(EvilModelPath, HelperExec)}

\* the entries of a zip archive, in archive order, one per path
Bundles ==
    {b \in UNION {[1..n -> Files] : n \in 0..MaxFiles} :
        \A i, j \in 1..Len(b) : b[i].path = b[j].path => i = j}

\* what get_object's Body.read() can return
Archives ==
    {[zip |-> FALSE, entries |-> <<>>]} \cup {[zip |-> TRUE, entries |-> b] : b \in Bundles}

-----------------------------------------------------------------------------
(* lambda_handler *)

Call(fn, arg) == [fn |-> fn, arg |-> arg]

\* the returned dictionary; a key the body lacks is None (<<>> for the report)
Response(code, err, message, mid, st, report) ==
    [statusCode |-> code,
     body |-> [error |-> err, message |-> message, model_id |-> mid,
               status |-> st, report |-> report]]

ErrorResponse(code, err) == Response(code, err, None, <<>>, None, <<>>)

Init ==
    /\ pc = "start"
    /\ event \in Events
    /\ checks = <<>>
    /\ start_time = None
    /\ end_time = None
    /\ extracted_files = NoneFiles
    /\ model_id = <<>>
    /\ model_class = <<>>
    /\ status = None
    /\ validation_report = <<>>
    /\ response = <<>>
    /\ calls = <<>>
    /\ tables = <<>>
    /\ security_config = TestSecurityConfig

\* the run leaves through `except KeyError` (400) or `except Exception` (500)
Raise(exc) ==
    /\ pc' = "done"
    /\ response' = <<ErrorResponse(IF exc = "KeyError" THEN 400 ELSE 500, exc)>>

\* return _complete_validation(report, mid, bucket_name, object_key, st)
GoComplete(mid, st) ==
    /\ pc' = "complete"
    /\ model_id' = mid
    /\ status' = st

\* lines 63-74: read the event, create the report, start timing
ReadEvent ==
    /\ pc = "start"
    /\ IF ParseEvent(event) = "ok"
       THEN /\ pc' = "check_file_size"
            /\ checks' = <<>>
            /\ start_time' = "set"
            /\ UNCHANGED response
       ELSE /\ Raise(ParseEvent(event))
            /\ UNCHANGED <<checks, start_time>>
    /\ UNCHANGED <<security_config, event, end_time, extracted_files, model_id, model_class, status,
                   validation_report, calls, tables>>

\* lines 76-84
CheckFileSize ==
    /\ pc = "check_file_size"
    /\ LET r == check_file_size(checks, event.size)
       IN /\ checks' = r.checks
          /\ calls' = Append(calls, Call("check_file_size", <<>>))
          /\ IF r.ok
             THEN pc' = "download" /\ UNCHANGED <<model_id, status>>
             ELSE GoComplete(<<>>, "INVALID")
    /\ UNCHANGED <<security_config, event, start_time, end_time, extracted_files, model_class,
                   validation_report, response, tables>>

\* lines 86-102: get_object raises, or returns bytes that extract_jar unpacks
Download ==
    /\ pc = "download"
    /\ calls' = Append(calls, Call("get_object", event.key))
    /\ \/ /\ Raise("ClientError")
          /\ UNCHANGED <<checks, extracted_files, model_id, status>>
       \/ \E jar_file_content \in Archives :
            /\ extracted_files' = extract_jar(jar_file_content)
            /\ UNCHANGED response
            /\ IF extracted_files'.none
               THEN /\ checks' = add_error(checks, "INVALID_JAR", "Unable to extract JAR")
                    /\ GoComplete(<<>>, "INVALID")
               ELSE /\ pc' = "validate_structure"
                    /\ UNCHANGED <<checks, model_id, status>>
    /\ UNCHANGED <<security_config, event, start_time, end_time, model_class, validation_report, tables>>

\* lines 109-112
ValidateStructure ==
    /\ pc = "validate_structure"
    /\ LET r == validate_structure(checks, extracted_files.files)
       IN /\ checks' = r.checks
          /\ calls' = Append(calls, Call("validate_structure", <<>>))
          /\ IF r.ok
             THEN pc' = "validate_metadata" /\ UNCHANGED <<model_id, status>>
             ELSE GoComplete(<<>>, "INVALID")
    /\ UNCHANGED <<security_config, event, start_time, end_time, extracted_files, model_class,
                   validation_report, response, tables>>

\* object_key.replace('/', '_').replace('.jar', '')
FallbackModelId(object_key) == Replace(Replace(object_key, "/", <<"_">>), ".jar", <<>>)

\* lines 114-148
ValidateMetadata ==
    /\ pc = "validate_metadata"
    /\ calls' = Append(calls, Call("get_metadata_file", <<>>))
    /\ LET metadata_bytes == get_metadata_file(extracted_files.files)
           r == validate(checks, metadata_bytes)
           mid == IF extract_model_id(metadata_bytes) = <<>>
                  THEN FallbackModelId(event.key)
                  ELSE extract_model_id(metadata_bytes)
           mclass == extract_model_class(metadata_bytes)
       IN IF ~Truthy(metadata_bytes)
          THEN /\ checks' = add_error(checks, "MISSING_METADATA",
                                      "metadata.json not found in JAR")
               /\ GoComplete(<<>>, "INVALID")
               /\ UNCHANGED <<model_class, response>>
          ELSE IF metadata_bytes.kind = "class"
          THEN \* bytes.decode('utf-8') raises UnicodeDecodeError
               /\ Raise("UnicodeDecodeError")
               /\ UNCHANGED <<checks, model_id, model_class, status>>
          ELSE IF r.outcome = "raise"
          THEN /\ Raise("TypeError")
               /\ UNCHANGED <<checks, model_id, model_class, status>>
          ELSE IF r.outcome = "False"
          THEN /\ checks' = r.checks
               /\ GoComplete(<<>>, "INVALID")
               /\ UNCHANGED <<model_class, response>>
          ELSE IF mclass = <<>>
          THEN /\ checks' = add_error(r.checks, "MISSING_MODEL_CLASS",
                                      "metadata.json must specify 'model_class' field")
               /\ GoComplete(mid, "INVALID")
               /\ UNCHANGED <<model_class, response>>
          ELSE /\ checks' = r.checks
               /\ pc' = "find_model_class"
               /\ model_id' = mid
               /\ model_class' = mclass
               /\ UNCHANGED <<status, response>>
    /\ UNCHANGED <<security_config, event, start_time, end_time, extracted_files, validation_report,
                   tables>>

\* the bytes lambda_handler holds in model_class_bytes from step 6 on
model_class_bytes == find_model_class(extracted_files.files, model_class)

\* lines 150-160
FindModelClass ==
    /\ pc = "find_model_class"
    /\ calls' = Append(calls, Call("find_model_class", model_class))
    /\ IF ~Truthy(model_class_bytes)
       THEN /\ checks' = add_error(checks, "MODEL_CLASS_NOT_FOUND",
                                   "Class not found in JAR")
            /\ GoComplete(model_id, "INVALID")
       ELSE /\ pc' = "check_implements_interface"
            /\ UNCHANGED <<checks, model_id, status>>
    /\ UNCHANGED <<security_config, event, start_time, end_time, extracted_files, model_class,
                   validation_report, response, tables>>

\* lines 171-178
CheckInterface ==
    /\ pc = "check_implements_interface"
    /\ LET r == check_implements_interface(checks, model_class_bytes)
       IN /\ checks' = r.checks
          /\ calls' = Append(calls, Call("check_implements_interface", <<>>))
          /\ IF r.ok
             THEN pc' = "check_has_method" /\ UNCHANGED <<model_id, status>>
             ELSE GoComplete(model_id, "INVALID")
    /\ UNCHANGED <<security_config, event, start_time, end_time, extracted_files, model_class,
                   validation_report, response, tables>>

\* lines 180-188
CheckMethod ==
    /\ pc = "check_has_method"
    /\ LET r == check_has_method(checks, model_class_bytes)
       IN /\ checks' = r.checks
          /\ calls' = Append(calls, Call("check_has_method", <<>>))
          /\ IF r.ok
             THEN pc' = "scan_class_file" /\ UNCHANGED <<model_id, status>>
             ELSE GoComplete(model_id, "INVALID")
    /\ UNCHANGED <<security_config, event, start_time, end_time, extracted_files, model_class,
                   validation_report, response, tables>>

\* lines 190-193
ScanPrimary ==
    /\ pc = "scan_class_file"
    /\ LET r == scan_class_file(checks, model_class_bytes)
       IN /\ checks' = r.checks
          /\ calls' = Append(calls, Call("scan_class_file", model_class))
          /\ IF r.ok
             THEN pc' = "scan_helpers" /\ UNCHANGED <<model_id, status>>
             ELSE GoComplete(model_id, "INVALID")
    /\ UNCHANGED <<security_config, event, start_time, end_time, extracted_files, model_class,
                   validation_report, response, tables>>

\* line 205: the interface/record classes the helper loop skips
SkippedSuffixes == {<<"State", ".class">>, <<"Order", ".class">>, <<"Model", ".class">>}

\* line 201 and line 205
SkipsHelper(class_path, mclass) ==
    \/ Contains(class_path, mclass)
    \/ \E skip \in SkippedSuffixes : Contains(class_path, skip)

\* lines 199-211: the loop over the class files, in archive order; a scan
\* that returns False is only logged
RECURSIVE HelperLoop(_, _, _)
HelperLoop(chk, class_files, mclass) ==
    IF class_files = <<>> THEN [checks |-> chk, scanned |-> <<>>]
    ELSE IF SkipsHelper(Head(class_files).path, mclass)
    THEN HelperLoop(chk, Tail(class_files), mclass)
    ELSE LET r == scan_class_file(chk, Head(class_files).content)
             rest == HelperLoop(r.checks, Tail(class_files), mclass)
         IN [checks |-> rest.checks,
             scanned |-> <<Call("scan_class_file", Head(class_files).path)>>
                         \o rest.scanned]

\* lines 195-215
ScanHelpers ==
    /\ pc = "scan_helpers"
    /\ LET r == HelperLoop(checks, find_all_class_files(extracted_files.files),
                           model_class)
       IN /\ checks' = r.checks
          /\ calls' = Append(calls, Call("find_all_class_files", <<>>)) \o r.scanned
    /\ GoComplete(model_id, "VALID")
    /\ UNCHANGED <<security_config, event, start_time, end_time, extracted_files, model_class,
                   validation_report, response, tables>>

-----------------------------------------------------------------------------
(* _complete_validation *)

\* lines 248-256: end timing, settle the model id, generate the report
CompleteValidation ==
    /\ pc = "complete"
    /\ end_time' = "set"
    /\ model_id' = IF model_id = <<>> THEN FallbackModelId(event.key) ELSE model_id
    /\ validation_report' = <<generate_report(checks, start_time, end_time', model_id')>>
    /\ pc' = "write_dynamodb"
    /\ UNCHANGED <<security_config, event, checks, start_time, extracted_files, model_class, status,
                   response, calls, tables>>

\* lines 278-299: the exception _write_to_model_registry ends with, or "ok";
\* put_ok is whether the table accepts the put_item
_write_to_model_registry(report, put_ok) ==
    IF ~({"status", "timestamp", "execution_time_ms"} \subseteq DOMAIN report)
    THEN "KeyError"
    ELSE IF put_ok THEN "ok" ELSE "Exception"

\* lines 302-315
_update_upload_status(report, update_ok) ==
    IF "timestamp" \notin DOMAIN report THEN "KeyError"
    ELSE IF update_ok THEN "ok" ELSE "Exception"

\* a try block that goes on to the status update after a failed registry write
WriteResult_continuing(report, put_ok, update_ok) ==
    LET w == _write_to_model_registry(report, put_ok)
        u == _update_upload_status(report, update_ok)
    IN [exc |-> IF w # "ok" THEN w ELSE u,
        written |-> (IF w = "ok" THEN <<"put_item">> ELSE <<>>)
                    \o (IF u = "ok" THEN <<"update_item">> ELSE <<>>)]

\* lines 259-265: the try block; the first exception ends it
WriteResult(report, put_ok, update_ok) ==
    LET w == _write_to_model_registry(report, put_ok)
    IN IF w # "ok" THEN [exc |-> w, written |-> <<>>]
       ELSE LET u == _update_upload_status(report, update_ok)
            IN IF u # "ok" THEN [exc |-> u, written |-> <<"put_item">>]
               ELSE [exc |-> "ok", written |-> <<"put_item", "update_item">>]

\* _complete_validation with the try/except around the writes removed: the
\* exception reaches lambda_handler's own handlers
complete_validation_result_uncaught(mid, st, report, exc) ==
    IF exc = "ok"
    THEN Response(200, None, "Validation complete", mid, st, <<report>>)
    ELSE ErrorResponse(IF exc = "KeyError" THEN 400 ELSE 500, exc)

\* lines 263-275: an exception of the writes is logged, the response is returned
complete_validation_result(mid, st, report, exc) ==
    Response(200, None, "Validation complete", mid, st, <<report>>)

\* lines 258-275
WriteToDynamoDB ==
    /\ pc = "write_dynamodb"
    /\ \E put_ok \in BOOLEAN, update_ok \in BOOLEAN :
         LET w == WriteResult(validation_report[1], put_ok, update_ok)
         IN /\ tables' = tables \o w.written
            /\ calls' = IF w.exc = "ok" THEN calls
                        ELSE Append(calls, Call("logger.error", <<w.exc>>))
            /\ response' = <<complete_validation_result(model_id, status,
                                                        validation_report[1], w.exc)>>
    /\ pc' = "done"
    /\ UNCHANGED <<security_config, event, checks, start_time, end_time, extracted_files, model_id,
                   model_class, status, validation_report>>

Next ==
    \/ ReadEvent
    \/ CheckFileSize
    \/ Download
    \/ ValidateStructure
    \/ ValidateMetadata
    \/ FindModelClass
    \/ CheckInterface
    \/ CheckMethod
    \/ ScanPrimary
    \/ ScanHelpers
    \/ CompleteValidation
    \/ WriteToDynamoDB

Spec == Init /\ [][Next]_vars

-----------------------------------------------------------------------------
(* A ReportGenerator driven by arbitrary calls of its public methods *)

ReportNames == {"fileSize", "securityScan"}
ErrorMessages == {"Invalid class file format", "Blocked method found"}
WarningMessages == {"may be for logging"}
ReportModelIds == {<<"test_model">>}

\* in this specification calls holds the last call made only
InitReport ==
    /\ pc = "report"
    /\ event = [shape |-> "ok", bucket |-> "test-bucket", key |-> ObjectKey, size |-> 0]
    /\ checks = <<>>
    /\ start_time = None
    /\ end_time = None
    /\ extracted_files = NoneFiles
    /\ model_id = <<>>
    /\ model_class = <<>>
    /\ status = None
    /\ validation_report = <<>>
    /\ response = <<>>
    /\ calls = <<>>
    /\ tables = <<>>
    /\ security_config = TestSecurityConfig

ReportFrame ==
    UNCHANGED <<security_config, pc, event, extracted_files, model_id, model_class, status,
                response, tables>>

\* generate_report puts self.checks itself, not a copy, into the dictionary it
\* returns: the dictionary returned last shows the checks as they now are
ReturnedReport(chk) ==
    IF validation_report = <<>> THEN <<>>
    ELSE <<[validation_report[1] EXCEPT !.checks = chk]>>

StartTiming ==
    /\ pc = "report"
    /\ start_time' = "set"
    /\ calls' = <<Call("start_timing", <<>>)>>
    /\ UNCHANGED <<checks, end_time, validation_report>>
    /\ ReportFrame

EndTiming ==
    /\ pc = "report"
    /\ end_time' = "set"
    /\ calls' = <<Call("end_timing", <<>>)>>
    /\ UNCHANGED <<checks, start_time, validation_report>>
    /\ ReportFrame

AddCheckPassed ==
    /\ pc = "report"
    /\ \E check_name \in ReportNames :
         /\ checks' = add_check_passed(checks, check_name)
         /\ calls' = <<Call("add_check_passed", <<check_name>>)>>
    /\ validation_report' = ReturnedReport(checks')
    /\ UNCHANGED <<start_time, end_time>>
    /\ ReportFrame

AddCheckFailed ==
    /\ pc = "report"
    /\ \E check_name \in ReportNames, error \in ErrorMessages :
         /\ checks' = add_check_failed(checks, check_name, error)
         /\ calls' = <<Call("add_check_failed", <<check_name, error>>)>>
    /\ validation_report' = ReturnedReport(checks')
    /\ UNCHANGED <<start_time, end_time>>
    /\ ReportFrame

AddError ==
    /\ pc = "report"
    /\ \E check_name \in ReportNames, error \in ErrorMessages :
         /\ checks' = add_error(checks, check_name, error)
         /\ calls' = <<Call("add_error", <<check_name, error>>)>>
    /\ validation_report' = ReturnedReport(checks')
    /\ UNCHANGED <<start_time, end_time>>
    /\ ReportFrame

AddWarning ==
    /\ pc = "report"
    /\ \E check_name \in ReportNames, message \in WarningMessages :
         /\ checks' = add_warning(checks, check_name, message)
         /\ calls' = <<Call("add_warning", <<check_name, message>>)>>
    /\ validation_report' = ReturnedReport(checks')
    /\ UNCHANGED <<start_time, end_time>>
    /\ ReportFrame

\* a call that resets the generator after building the report
GenerateReportAndReset ==
    /\ pc = "report"
    /\ \E mid \in ReportModelIds :
         /\ validation_report' = <<generate_report(checks, start_time, end_time, mid)>>
         /\ calls' = <<Call("generate_report", mid)>>
    /\ checks' = <<>>
    /\ UNCHANGED <<start_time, end_time>>
    /\ ReportFrame

\* lines 92-109; validation_report holds the dictionary returned last
GenerateReport ==
    /\ pc = "report"
    /\ \E mid \in ReportModelIds :
         /\ validation_report' = <<generate_report(checks, start_time, end_time, mid)>>
         /\ calls' = <<Call("generate_report", mid)>>
    /\ UNCHANGED <<checks, start_time, end_time>>
    /\ ReportFrame

NextReport ==
    \/ StartTiming
    \/ EndTiming
    \/ AddCheckPassed
    \/ AddCheckFailed
    \/ AddError
    \/ AddWarning
    \/ GenerateReport

SpecReport == InitReport /\ [][NextReport]_vars

-----------------------------------------------------------------------------
(* JavaBytecodeScanner: one method applied to one class and a fresh report *)

\* method tables of up to MaxMethods entries
MethodTables ==
    LET MethodPool ==
            {SimulateStep,
             [name |-> required_method_name, descriptor |-> "()V"],
             [name |-> "getName", descriptor |-> required_method_signature]}
    IN UNION {[1..n -> MethodPool] : n \in 0..MaxMethods}

\* the byte strings handed to the scanner
ScannerInputs ==
    LET JavaIoSerializable == <<"java", "/", "io", "/", "Serializable">>
        JavaLangSystem == <<"java", "/", "lang", "/", "System">>
        \* a class that prints: the Fieldref of System.out and the Class
        \* constant of its owner
        PrintPool == BenignPool \o <<ConstantClass(JavaLangSystem),
                                     FieldReference(JavaLangSystem, "out")>>
    IN {ClassBytes(interfaces, methods, constants) :
           interfaces \in {<<>>, <<required_interface>>, <<JavaIoSerializable>>,
                           <<JavaIoSerializable, required_interface>>},
           methods \in MethodTables,
           constants \in {BenignPool, ExecPool, PrintPool}}
       \cup {TextBytes, EmptyBytes}

\* the class is held as the only entry of extracted_files, so that
\* model_class_bytes is the scanner's argument
InitScanner ==
    /\ pc = "scanner"
    /\ event = [shape |-> "ok", bucket |-> "test-bucket", key |-> ObjectKey, size |-> 0]
    /\ checks = <<>>
    /\ start_time = None
    /\ end_time = None
    /\ \E class_bytes \in ScannerInputs :
          extracted_files = Dict(<<File(MainPath, class_bytes)>>)
    /\ model_id = <<>>
    /\ model_class = ModelClassName
    /\ status = None
    /\ validation_report = <<>>
    /\ response = <<>>
    /\ calls = <<>>
    /\ tables = <<>>
    /\ security_config \in SecurityConfigs

\* response holds the boolean the method returned
ScannerReturn(fn, r) ==
    /\ checks' = r.checks
    /\ response' = <<r.ok>>
    /\ calls' = <<Call(fn, <<>>)>>
    /\ pc' = "returned"
    /\ UNCHANGED <<security_config, event, start_time, end_time, extracted_files, model_id,
                   model_class, status, validation_report, tables>>

CallScanClassFile ==
    /\ pc = "scanner"
    /\ ScannerReturn("scan_class_file", scan_class_file(checks, model_class_bytes))

CallCheckImplementsInterface ==
    /\ pc = "scanner"
    /\ ScannerReturn("check_implements_interface",
                     check_implements_interface(checks, model_class_bytes))

CallCheckHasMethod ==
    /\ pc = "scanner"
    /\ ScannerReturn("check_has_method", check_has_method(checks, model_class_bytes))

SpecScanner ==
    InitScanner
    /\ [][CallScanClassFile \/ CallCheckImplementsInterface \/ CallCheckHasMethod]_vars

-----------------------------------------------------------------------------
(* JavaMetadataValidator.validate applied to one text and a fresh report *)

\* the texts handed to validate: JSON objects, a JSON number, text that is
\* not JSON
MetadataInputs ==
    {JsonBytes(JsonDict(mid, version, author, mclass)) :
        mid \in {Missing, Num, Str(<<>>), Str(<<" ">>), Str(<<"m1">>)},
        version \in {Missing, Num, Str(<<>>), Str(<<"1", ".", "0">>)},
        author \in {Missing, Num, Str(<<" ">>), Str(<<"alice">>)},
        mclass \in {Missing, Num, Str(<<" ">>), Str(<<"Algo">>), Str(ModelClassName)}}
    \cup {JsonBytes(JsonNumber), TextBytes}

\* the text is held as the metadata.json of extracted_files
InitMetadata ==
    /\ pc = "validator"
    /\ event = [shape |-> "ok", bucket |-> "test-bucket", key |-> ObjectKey, size |-> 0]
    /\ checks = <<>>
    /\ start_time = None
    /\ end_time = None
    /\ \E content \in MetadataInputs :
          extracted_files = Dict(<<File(MetaPath, content)>>)
    /\ model_id = <<>>
    /\ model_class = <<>>
    /\ status = None
    /\ validation_report = <<>>
    /\ response = <<>>
    /\ calls = <<>>
    /\ tables = <<>>
    /\ security_config = TestSecurityConfig

\* response holds "True", "False" or, when validate raised, "raise"
CallValidate ==
    /\ pc = "validator"
    /\ LET r == validate(checks, get_metadata_file(extracted_files.files))
       IN /\ checks' = r.checks
          /\ response' = <<r.outcome>>
    /\ calls' = <<Call("validate", <<>>)>>
    /\ pc' = "returned"
    /\ UNCHANGED <<security_config, event, start_time, end_time, extracted_files, model_id,
                   model_class, status, validation_report, tables>>

SpecMetadata == InitMetadata /\ [][CallValidate]_vars

-----------------------------------------------------------------------------
(* CodeScanner *)

\* CodeScanner(allowed_imports, blocked_imports, blocked_builtins)
allowed_imports == {<<"numpy">>, <<"pandas">>, <<"datetime">>, <<"typing">>, <<"math">>}
blocked_imports == {<<"os">>, <<"sys">>, <<"subprocess">>, <<"socket">>}
blocked_builtins == security_config.blocked_builtins

\* str.split(sep)[0]
RECURSIVE SplitFirst(_, _)
SplitFirst(s, sep) ==
    IF s = <<>> \/ Head(s) = sep THEN <<>>
    ELSE <<Head(s)>> \o SplitFirst(Tail(s), sep)

\* The nodes ast.walk yields, of the types the checks test with isinstance;
\* func is node.func of a Call, value is node.value of an Expr.
\* Func("Name", id) is an ast.Name, Func("Attribute", attr) an ast.Attribute,
\* Func("None", "") stands for a field the node does not have.
Func(type, id) == [type |-> type, id |-> id]
AstNode(type, names, module, func, value, attr) ==
    [type |-> type, names |-> names, module |-> module, func |-> func,
     value |-> value, attr |-> attr]
AstImport(names) ==
    AstNode("Import", names, <<>>, Func("None", ""),
            [type |-> "None", func |-> Func("None", "")], "")
\* module <<>> is node.module = None (from . import x)
AstImportFrom(module) ==
    AstNode("ImportFrom", <<>>, module, Func("None", ""),
            [type |-> "None", func |-> Func("None", "")], "")
AstCall(func) ==
    AstNode("Call", <<>>, <<>>, func, [type |-> "None", func |-> Func("None", "")], "")
\* an expression statement whose value is a Call
AstExpr(func) ==
    AstNode("Expr", <<>>, <<>>, Func("None", ""), [type |-> "Call", func |-> func], "")
AstAttribute(attr) ==
    AstNode("Attribute", <<>>, <<>>, Func("None", ""),
            [type |-> "None", func |-> Func("None", "")], attr)

\* lines 76-109: the violations of one Import node's aliases
RECURSIVE AliasViolations(_)
AliasViolations(names) ==
    IF names = <<>> THEN <<>>
    ELSE LET module_name == SplitFirst(Head(names), ".")
         IN (IF module_name \in blocked_imports
             THEN <<[module |-> module_name, type |-> "import"]>>
             ELSE IF module_name \notin allowed_imports
             THEN <<[module |-> module_name, type |-> "import_not_whitelisted"]>>
             ELSE <<>>) \o AliasViolations(Tail(names))

RECURSIVE ImportViolations(_)
ImportViolations(tree) ==
    IF tree = <<>> THEN <<>>
    ELSE LET node == Head(tree)
             module_name == SplitFirst(node.module, ".")
         IN (IF node.type = "Import" THEN AliasViolations(node.names)
             ELSE IF node.type = "ImportFrom" /\ node.module # <<>>
             THEN (IF module_name \in blocked_imports
                   THEN <<[module |-> module_name, type |-> "from_import"]>>
                   ELSE IF module_name \notin allowed_imports
                   THEN <<[module |-> module_name, type |-> "import_not_whitelisted"]>>
                   ELSE <<>>)
             ELSE <<>>) \o ImportViolations(Tail(tree))

\* lines 112-124
RECURSIVE ReportImportViolations(_, _)
ReportImportViolations(chk, violations) ==
    IF violations = <<>> THEN chk
    ELSE ReportImportViolations(
             IF Head(violations).type \in {"import", "from_import"}
             THEN add_error(chk, "DISALLOWED_IMPORT", "Disallowed import found")
             ELSE add_error(chk, "IMPORT_NOT_WHITELISTED",
                            "Import is not in the allowed list"),
             Tail(violations))

_check_imports(chk, tree) ==
    LET violations == ImportViolations(tree)
    IN [ok |-> Len(violations) = 0,
        checks |-> ReportImportViolations(chk, violations)]

\* one add_error per violation, all under the same check name
RECURSIVE ReportEach(_, _, _, _)
ReportEach(chk, violations, check_name, message) ==
    IF violations = <<>> THEN chk
    ELSE ReportEach(add_error(chk, check_name, message), Tail(violations),
                    check_name, message)

\* lines 132-147: the elif repeats the test of the if before it
BuiltinViolation(node) ==
    /\ node.type = "Call"
    /\ IF node.func.type = "Name"
       THEN node.func.id \in blocked_builtins
       ELSE node.func.type = "Name" /\ node.func.id = "__import__"

_check_builtin_calls(chk, tree) ==
    LET violations == SelectSeq(tree, BuiltinViolation)
    IN [ok |-> Len(violations) = 0,
        checks |-> ReportEach(chk, violations, "DISALLOWED_BUILTIN",
                              "Disallowed builtin function called")]

\* lines 162-178
FileViolation(node) ==
    /\ node.type = "Call"
    /\ IF node.func.type = "Name" /\ node.func.id = "open" THEN TRUE
       ELSE /\ node.func.type = "Attribute"
            /\ node.func.id \in {"write", "read", "remove", "unlink", "mkdir", "rmdir"}

_check_file_operations(chk, tree) ==
    LET violations == SelectSeq(tree, FileViolation)
    IN [ok |-> Len(violations) = 0,
        checks |-> ReportEach(chk, violations, "DISALLOWED_FILE_OPERATION",
                              "File operation found")]

\* lines 193-202
NetworkViolation(node) ==
    /\ node.type = "Call"
    /\ node.func.type = "Attribute"
    /\ node.func.id \in {"connect", "send", "recv", "sendall", "request", "get", "post"}

_check_network_operations(chk, tree) ==
    LET violations == SelectSeq(tree, NetworkViolation)
    IN [ok |-> Len(violations) = 0,
        checks |-> ReportEach(chk, violations, "DISALLOWED_NETWORK_OPERATION",
                              "Network operation found")]

\* lines 217-235
PatternViolation(node) ==
    \/ /\ node.type = "Expr"
       /\ node.value.type = "Call"
       /\ node.value.func.type = "Name"
       /\ node.value.func.id \in {"exec", "eval", "compile"}
    \/ /\ node.type = "Attribute"
       /\ node.attr \in {"__globals__", "__builtins__", "__code__", "__import__"}

_check_dangerous_patterns(chk, tree) ==
    LET violations == SelectSeq(tree, PatternViolation)
    IN [ok |-> Len(violations) = 0,
        checks |-> ReportEach(chk, violations, "DANGEROUS_PATTERN",
                              "Dangerous code pattern found")]

\* Source text: parses is whether ast.parse succeeds, body the statements,
\* each given by the nodes ast.walk yields for it.
SourceCode(parses, body) == [parses |-> parses, body |-> body]

RECURSIVE ast_walk(_)
ast_walk(body) == IF body = <<>> THEN <<>> ELSE Head(body) \o ast_walk(Tail(body))

\* scan that returns at the first category with a violation
scan_early_exit(chk, code) ==
    IF ~code.parses
    THEN [ok |-> FALSE, checks |-> add_error(chk, "SYNTAX_ERROR", "Code has syntax error")]
    ELSE LET tree == ast_walk(code.body)
             r1 == _check_imports(chk, tree)
             r2 == _check_builtin_calls(r1.checks, tree)
             r3 == _check_file_operations(r2.checks, tree)
             r4 == _check_network_operations(r3.checks, tree)
             r5 == _check_dangerous_patterns(r4.checks, tree)
         IN IF ~r1.ok THEN [ok |-> FALSE, checks |-> r1.checks]
            ELSE IF ~r2.ok THEN [ok |-> FALSE, checks |-> r2.checks]
            ELSE IF ~r3.ok THEN [ok |-> FALSE, checks |-> r3.checks]
            ELSE IF ~r4.ok THEN [ok |-> FALSE, checks |-> r4.checks]
            ELSE IF ~r5.ok THEN [ok |-> FALSE, checks |-> r5.checks]
            ELSE [ok |-> TRUE, checks |-> add_check_passed(r5.checks, "code_safety_scan")]

\* scan without its fifth category
scan_four_categories(chk, code) ==
    IF ~code.parses
    THEN [ok |-> FALSE, checks |-> add_error(chk, "SYNTAX_ERROR", "Code has syntax error")]
    ELSE LET tree == ast_walk(code.body)
             r1 == _check_imports(chk, tree)
             r2 == _check_builtin_calls(r1.checks, tree)
             r3 == _check_file_operations(r2.checks, tree)
             r4 == _check_network_operations(r3.checks, tree)
             violations_found == ~r1.ok \/ ~r2.ok \/ ~r3.ok \/ ~r4.ok
         IN [ok |-> ~violations_found,
             checks |-> IF ~violations_found
                        THEN add_check_passed(r4.checks, "code_safety_scan")
                        ELSE r4.checks]

\* lines 28-70
scan(chk, code) ==
    IF ~code.parses
    THEN [ok |-> FALSE, checks |-> add_error(chk, "SYNTAX_ERROR", "Code has syntax error")]
    ELSE LET tree == ast_walk(code.body)
             r1 == _check_imports(chk, tree)
             r2 == _check_builtin_calls(r1.checks, tree)
             r3 == _check_file_operations(r2.checks, tree)
             r4 == _check_network_operations(r3.checks, tree)
             r5 == _check_dangerous_patterns(r4.checks, tree)
             violations_found == ~r1.ok \/ ~r2.ok \/ ~r3.ok \/ ~r4.ok \/ ~r5.ok
         IN [ok |-> ~violations_found,
             checks |-> IF ~violations_found
                        THEN add_check_passed(r5.checks, "code_safety_scan")
                        ELSE r5.checks]

-----------------------------------------------------------------------------
(* CodeScanner.scan applied to one source and a fresh report *)

\* `f(...)` as a statement of its own
ExprCallName(id) == <<AstExpr(Func("Name", id)), AstCall(Func("Name", id))>>
\* `o.m(...)` as a statement of its own
ExprCallAttribute(attr) ==
    <<AstExpr(Func("Attribute", attr)), AstCall(Func("Attribute", attr)),
      AstAttribute(attr)>>

\* import and from-import statements, `x = f(...)`, `f(...)`, `o.m(...)`, `x = o.a`
Statements ==
    {<<AstImport(<<(<<"os">>)>>)>>,
     <<AstImport(<<(<<"pandas">>)>>)>>,
     <<AstImport(<<(<<"requests">>)>>)>>,
     <<AstImport(<<(<<"pandas">>), (<<"os", ".", "path">>)>>)>>,
     <<AstImportFrom(<<"subprocess">>)>>,
     <<AstImportFrom(<<"numpy", ".", "linalg">>)>>,
     <<AstImportFrom(<<>>)>>,
     <<AstCall(Func("Name", "eval"))>>,
     ExprCallName("exec"),
     ExprCallName("compile"),
     <<AstCall(Func("Name", "open"))>>,
     <<AstCall(Func("Name", "len"))>>,
     <<AstCall(Func("Name", "__import__"))>>,
     ExprCallAttribute("write"),
     ExprCallAttribute("get"),
     ExprCallAttribute("Series"),
     <<AstAttribute("__globals__")>>,
     <<AstAttribute("shape")>>}

\* the texts handed to scan
CodeInputs ==
    {SourceCode(TRUE, body) :
        body \in UNION {[1..n -> Statements] : n \in 0..MaxStatements}}
    \cup {SourceCode(FALSE, <<>>)}

InitCode ==
    /\ pc = "code_scanner"
    /\ event = [shape |-> "ok", bucket |-> "test-bucket", key |-> ObjectKey, size |-> 0]
    /\ checks = <<>>
    /\ start_time = None
    /\ end_time = None
    /\ extracted_files = NoneFiles
    /\ model_id = <<>>
    /\ model_class = <<>>
    /\ status = None
    /\ validation_report = <<>>
    /\ response = <<>>
    /\ calls = <<>>
    /\ tables = <<>>
    /\ security_config \in SecurityConfigs

\* calls holds the source scanned, response the boolean returned
CallScan ==
    /\ pc = "code_scanner"
    /\ \E code \in CodeInputs :
         LET r == scan(checks, code)
         IN /\ checks' = r.checks
            /\ response' = <<r.ok>>
            /\ calls' = <<Call("scan", code)>>
    /\ pc' = "returned"
    /\ UNCHANGED <<security_config, event, start_time, end_time, extracted_files, model_id,
                   model_class, status, validation_report, tables>>

SpecCode == InitCode /\ [][CallScan]_vars

-----------------------------------------------------------------------------
(* Properties *)

FailedNames(chk) == {chk[i].name : i \in {j \in 1..Len(chk) : ~chk[j].result.passed}}
PassedNames(chk) == {chk[i].name : i \in {j \in 1..Len(chk) : chk[j].result.passed}}
CalledFns == {calls[i].fn : i \in 1..Len(calls)}
Returned == pc = "done"
\* the run returned through _complete_validation
Completed == pc = "done" /\ validation_report # <<>>

\* C1: after any sequence of record calls, is_verified() is true exactly when
\* at least one check is recorded and every recorded check has passed = true;
\* with no check recorded it is false.
C1_VerifiedIffNonEmptyAllPassed ==
    /\ is_verified(checks) <=>
          (Len(checks) >= 1 /\ FailedNames(checks) = {})
    /\ (checks = <<>> => ~is_verified(checks))

\* two checks recorded, one of them created by add_warning, and verified
C1_Witness ==
    /\ pc = "report"
    /\ Len(checks) = 2
    /\ is_verified(checks)
    /\ \E i \in 1..2 : checks[i].result.warning # None

\* the gates of lambda_handler in their order, and the position after the last
GateOrder ==
    <<"check_file_size", "download", "validate_structure", "validate_metadata",
      "find_model_class", "check_implements_interface", "check_has_method",
      "scan_class_file", "scan_helpers">>
Gates == {GateOrder[i] : i \in 1..(Len(GateOrder) - 1)}
GateIndex(p) == CHOOSE i \in 1..Len(GateOrder) : GateOrder[i] = p

\* C2: the gates run in the fixed order; a gate either passes to the next
\* gate or, failing, sends the run straight to _complete_validation with
\* status INVALID, and nothing after that records a check.
C2_GatesInOrderAndHaltOnFailure ==
    [][ /\ pc \in Gates =>
            \/ pc' = GateOrder[GateIndex(pc) + 1]
            \/ pc' = "complete" /\ status' = "INVALID"
        /\ pc \in {"complete", "write_dynamodb", "done"} => checks' = checks ]_vars

\* C3: when the primary class passed every gate and a helper class failed its
\* scan, the generated report still has verified = true.
C3_HelperViolationKeepsVerified ==
    (Completed /\ status = "VALID") => validation_report[1].verified

\* a constant-pool entry the policy blocks
BlockedConstant(const) ==
    \/ /\ const.kind = "Class"
       /\ \/ const.class_name \in blocked_classes
          \/ \E pkg \in blocked_packages : StartsWith(const.class_name, pkg)
    \/ /\ const.kind = "Method"
       /\ const.class_name \o <<".", const.member>> \in blocked_methods

HasBlockedReference(cf) ==
    \E i \in 1..Len(cf.constants) : BlockedConstant(cf.constants[i])

PrimaryFound == model_class # <<>> /\ Truthy(model_class_bytes)

ViolationNames ==
    {"DISALLOWED_CLASS_REFERENCE", "DISALLOWED_PACKAGE_REFERENCE",
     "DISALLOWED_METHOD_CALL"}

\* C4: no run ends VALID when the primary class's constant pool holds a blocked
\* class, a class of a blocked package or a blocked method reference; the
\* primary scan then returns False and records a failed check.
C4_BlockedPrimaryNeverValid ==
    (PrimaryFound /\ ParsesAsClass(model_class_bytes)
        /\ HasBlockedReference(model_class_bytes)) =>
        /\ status # "VALID"
        /\ pc # "scan_helpers"
        /\ ~scan_class_file(checks, model_class_bytes).ok
        /\ "scan_class_file" \in CalledFns =>
              /\ FailedNames(checks) \cap ViolationNames # {}
              /\ status = "INVALID"

\* the primary class references a class of a blocked package and the run returned
C4_Witness ==
    /\ Completed
    /\ PrimaryFound
    /\ model_class_bytes = RefBlockedPackage
    /\ "scan_class_file" \in CalledFns
    /\ "DISALLOWED_PACKAGE_REFERENCE" \in FailedNames(checks)

\* C5: every event, also one that lacks Records, bucket, key or size, is
\* answered with statusCode 200 and a report; a failure before any check has
\* verified = false and an eventParsing entry in overallErrors.
C5_EveryEventGetsReport ==
    Returned =>
        /\ response[1].statusCode = 200
        /\ response[1].body.report # <<>>
        /\ (calls = <<>> =>
              LET report == response[1].body.report[1]
              IN /\ ~report.verified
                 /\ \E i \in 1..Len(report.overallErrors) :
                       report.overallErrors[i][1] = "eventParsing")

\* get_object was called and raised
GetObjectRaised ==
    /\ Returned
    /\ calls # <<>>
    /\ calls[Len(calls)].fn = "get_object"
    /\ ~HasCheck(checks, "INVALID_JAR")

\* C6: when get_object raises, the run returns statusCode 200 with a report
\* that is not verified and whose overallErrors holds a failed s3FileReadable
\* check.
C6_RetrievalErrorBecomesCheck ==
    GetObjectRaised =>
        /\ response[1].statusCode = 200
        /\ response[1].body.report # <<>>
        /\ ~response[1].body.report[1].verified
        /\ "s3FileReadable" \in FailedNames(checks)

\* C7: a declared size above the ceiling halts the run before get_object is
\* called, with the size gate the only failing check and the report not
\* verified; a declared size equal to the ceiling passes the size gate.
C7_OversizeHaltsBeforeDownload ==
    (ParseEvent(event) = "ok" /\ pc \notin {"start", "check_file_size"}) =>
        IF event.size > MaxFileSizeBytes
        THEN /\ "get_object" \notin CalledFns
             /\ CalledFns \subseteq {"check_file_size", "logger.error"}
             /\ FailedNames(checks) = {"FILE_TOO_LARGE"}
             /\ PassedNames(checks) = {}
             /\ status = "INVALID"
             /\ pc \in {"complete", "write_dynamodb", "done"}
             /\ Returned =>
                   /\ response[1].statusCode = 200
                   /\ ~response[1].body.report[1].verified
        ELSE /\ "file_size_validation" \in PassedNames(checks)
             /\ "FILE_TOO_LARGE" \notin FailedNames(checks)

\* an oversized artifact was answered
C7_Witness ==
    /\ Completed
    /\ event.size = MaxFileSizeBytes + 1
    /\ FailedNames(checks) = {"FILE_TOO_LARGE"}

\* C8: the returned status is VALID exactly when the report generated in the
\* run has verified = true.
C8_StatusAgreesWithVerified ==
    Completed =>
        (response[1].body.status = "VALID" <=> response[1].body.report[1].verified)

\* C9: once end_timing() has been called no add_check_passed,
\* add_check_failed, add_error or add_warning call changes the checks, the
\* is_verified() result or the get_overall_errors() result.
C9_ClosedIsTerminal ==
    [][ (pc = "report" /\ end_time # None) =>
            /\ checks' = checks
            /\ is_verified(checks') = is_verified(checks)
            /\ get_overall_errors(checks') = get_overall_errors(checks) ]_vars

\* C10: whatever the persistence writes do, _complete_validation returns
\* statusCode 200 with the report it generated and the status it was given.
C10_PersistenceFailureKeepsOutcome ==
    Completed =>
        response = <<Response(200, None, "Validation complete", model_id, status,
                              validation_report)>>

\* a persistence write failed, was logged, and the VALID outcome was returned
C10_Witness ==
    /\ Completed
    /\ calls[Len(calls)].fn = "logger.error"
    /\ status = "VALID"
    /\ response[1].statusCode = 200
    /\ response[1].body.report = validation_report

\* the writes ended with an exception a persistence collaborator raised
CollaboratorRaised ==
    \E i \in 1..Len(calls) :
        calls[i].fn = "logger.error" /\ calls[i].arg = <<"Exception">>

\* C11: in every run that went through _complete_validation while neither
\* table raised, put_item was performed and update_item was performed after it.
C11_BothWritesInOrder ==
    (Completed /\ ~CollaboratorRaised) => tables = <<"put_item", "update_item">>

\* the entries of get_overall_errors() that start with the given check name
EntriesFor(errors, name) == {j \in 1..Len(errors) : errors[j][1] = name}

\* C12: get_overall_errors() holds exactly one entry "<checkName>: <message>"
\* for each recorded check with passed = false and no entry for a check with
\* passed = true; it is empty exactly when no recorded check failed.
C12_OneEntryPerFailedCheck ==
    LET errors == get_overall_errors(checks)
    IN /\ \A i \in 1..Len(checks) :
            IF checks[i].result.passed
            THEN EntriesFor(errors, checks[i].name) = {}
            ELSE /\ Cardinality(EntriesFor(errors, checks[i].name)) = 1
                 /\ \A j \in EntriesFor(errors, checks[i].name) :
                       errors[j] = <<checks[i].name, ": ", checks[i].result.error>>
       /\ \A j \in 1..Len(errors) : errors[j][1] \in FailedNames(checks)
       /\ Len(errors) = Cardinality(FailedNames(checks))
       /\ (errors = <<>> <=> FailedNames(checks) = {})

\* one check passed, the other failed, and only the failed one is listed
C12_Witness ==
    /\ pc = "report"
    /\ PassedNames(checks) = {"fileSize"}
    /\ FailedNames(checks) = {"securityScan"}
    /\ get_overall_errors(checks) =
          <<(<<"securityScan", ": ", "Blocked method found">>)>>

\* the last call recorded a check under the given name
LastWrote(name) ==
    /\ calls # <<>>
    /\ calls[1].fn \in {"add_check_passed", "add_check_failed", "add_error"}
    /\ calls[1].arg[1] = name

\* the result the last call wrote
LastWritten ==
    IF calls[1].fn = "add_check_passed" THEN CheckResult(TRUE, None, None)
    ELSE CheckResult(FALSE, calls[1].arg[2], None)

\* C13: recording a check under a name already present replaces the earlier
\* entry: the report holds at most one CheckResult per name, a record call
\* adds an entry only for a new name, leaves the entries of other names as they
\* were, and the entry of its name is the result it wrote.
C13_LaterWriteOverwrites ==
    [][ pc' = "report" =>
          /\ \A i, j \in 1..Len(checks') :
                checks'[i].name = checks'[j].name => i = j
          /\ \A name \in ReportNames :
                IF LastWrote(name)'
                THEN /\ HasCheck(checks', name)
                     /\ checks'[IndexOf(checks', name)].result = LastWritten'
                     /\ Len(checks') = Len(checks) + (IF HasCheck(checks, name) THEN 0 ELSE 1)
                ELSE /\ HasCheck(checks', name) <=>
                           \/ HasCheck(checks, name)
                           \/ (calls'[1].fn = "add_warning" /\ calls'[1].arg[1] = name)
                     /\ (HasCheck(checks, name) /\ calls'[1].fn # "add_warning") =>
                           checks'[IndexOf(checks', name)].result =
                              checks[IndexOf(checks, name)].result ]_vars

\* a failed check was recorded again as passed: its entry, first of two, was
\* replaced in place
C13_Witness ==
    /\ pc = "report"
    /\ Len(checks) = 2
    /\ LastWrote(checks[1].name)
    /\ calls[1].fn = "add_check_passed"
    /\ checks[1].result = CheckResult(TRUE, None, None)

\* the run got as far as reading model_id out of the metadata
IdFromMetadata ==
    "find_model_class" \in CalledFns \/ HasCheck(checks, "MISSING_MODEL_CLASS")

\* the last path component without its extension token
BaseNameWithoutExtension(path) ==
    LET base == SplitLast(path, "/")
    IN IF Len(base) > 1 /\ base[Len(base)] \in {".jar", ".class", ".json"}
       THEN SubSeq(base, 1, Len(base) - 1)
       ELSE base

\* C14: when a run ends before a model id was taken from metadata, the
\* report's modelId is the basename of the storage path with its extension
\* removed.
C14_FallbackIdIsBasename ==
    (Completed /\ ~IdFromMetadata) =>
        validation_report[1].modelId = BaseNameWithoutExtension(event.key)

\* check_implements_interface ran on a parsed primary class whose interface
\* list lacks the required interface
InterfaceMissing ==
    /\ PrimaryFound
    /\ ParsesAsClass(model_class_bytes)
    /\ \A i \in 1..Len(model_class_bytes.interfaces) :
          model_class_bytes.interfaces[i] # required_interface
    /\ "check_implements_interface" \in CalledFns

\* C15: for a primary class whose interface list lacks the required interface,
\* check_implements_interface returns False and records a failed check named
\* implementsInterface, overallErrors holds an implementsInterface entry, and
\* neither check_has_method nor the security scan is reached.
C15_MissingInterfaceHalts ==
    InterfaceMissing =>
        /\ "implementsInterface" \in FailedNames(checks)
        /\ EntriesFor(get_overall_errors(checks), "implementsInterface") # {}
        /\ status = "INVALID"
        /\ {"check_has_method", "scan_class_file"} \cap CalledFns = {}

\* the method table holds a method with the required name and descriptor
HasRequiredMethod(cf) ==
    /\ ParsesAsClass(cf)
    /\ \E i \in 1..Len(cf.methods) :
          /\ cf.methods[i].name = required_method_name
          /\ cf.methods[i].descriptor = required_method_signature

ScannerReturned(fn) == pc = "returned" /\ calls = <<Call(fn, <<>>)>>

\* C16: check_has_method returns True and records a pass exactly when the
\* method table holds a method with the required name and the required
\* descriptor; in every other case it returns False and records a failed check.
C16_MethodFoundIffExactSignature ==
    ScannerReturned("check_has_method") =>
        IF HasRequiredMethod(model_class_bytes)
        THEN /\ response = <<TRUE>>
             /\ PassedNames(checks) # {}
             /\ FailedNames(checks) = {}
        ELSE /\ response = <<FALSE>>
             /\ FailedNames(checks) # {}
             /\ PassedNames(checks) = {}

\* C17: for class bytes that cannot be parsed, scan_class_file,
\* check_implements_interface and check_has_method each return False and
\* record a failed check.
C17_ParseFailureIsReported ==
    (pc = "returned" /\ ~ParsesAsClass(model_class_bytes)) =>
        /\ response = <<FALSE>>
        /\ FailedNames(checks) # {}

\* the text validate was given
metadata_content == get_metadata_file(extracted_files.files)

\* a JSON object whose four fields are present and pass their checks
WellFormedMetadata(content) ==
    /\ content.kind = "json"
    /\ content.doc.type = "dict"
    /\ \A f \in FieldNames : content.doc.fields[f].type = "str"
    /\ \A f \in {"model_id", "author", "model_class"} :
          Strip(content.doc.fields[f].value) # <<>>
    /\ _is_valid_java_class_name(content.doc.fields["model_class"].value)

\* C18: validate returns a boolean for every metadata text and never raises;
\* it returns False with a failed check recorded when the text is not JSON, a
\* required field is absent or a field fails its check, and records
\* metadata_validation only when it returns True.
C18_ValidateNeverRaises ==
    (pc = "returned" /\ calls = <<Call("validate", <<>>)>>) =>
        /\ response[1] \in {"True", "False"}
        /\ ~WellFormedMetadata(metadata_content) =>
              response = <<"False">> /\ FailedNames(checks) # {}
        /\ "metadata_validation" \in PassedNames(checks) => response = <<"True">>

\* scan returned; scanned_code is the source it was given
ScanReturned == pc = "returned" /\ calls # <<>> /\ calls[1].fn = "scan"
scanned_code == calls[1].arg

\* the base modules the Import and ImportFrom nodes of a tree name
ImportedBases(tree) ==
    UNION {{SplitFirst(tree[i].names[k], ".") : k \in 1..Len(tree[i].names)} :
              i \in {j \in 1..Len(tree) : tree[j].type = "Import"}}
    \cup {SplitFirst(tree[i].module, ".") :
              i \in {j \in 1..Len(tree) : tree[j].type = "ImportFrom"
                                           /\ tree[j].module # <<>>}}

HasBlockedImport(tree) == ImportedBases(tree) \cap blocked_imports # {}

HasBlockedBuiltinCall(tree) ==
    \E i \in 1..Len(tree) :
        /\ tree[i].type = "Call"
        /\ tree[i].func.type = "Name"
        /\ tree[i].func.id \in blocked_builtins

\* C19: a single scan of a source with a blocked import and a blocked
\* built-in call records failed checks DISALLOWED_IMPORT and
\* DISALLOWED_BUILTIN; every one of the five categories that has a hit in a
\* parsed source has its failed check recorded by the same call.
C19_AllCategoriesReported ==
    (ScanReturned /\ scanned_code.parses) =>
        LET tree == ast_walk(scanned_code.body)
            failed == FailedNames(checks)
        IN /\ (HasBlockedImport(tree) /\ HasBlockedBuiltinCall(tree)) =>
                 /\ {"DISALLOWED_IMPORT", "DISALLOWED_BUILTIN"} \subseteq failed
                 /\ response = <<FALSE>>
           /\ HasBlockedImport(tree) => "DISALLOWED_IMPORT" \in failed
           /\ ImportedBases(tree) \ (blocked_imports \cup allowed_imports) # {} =>
                 "IMPORT_NOT_WHITELISTED" \in failed
           /\ HasBlockedBuiltinCall(tree) => "DISALLOWED_BUILTIN" \in failed
           /\ (\E i \in 1..Len(tree) : FileViolation(tree[i])) =>
                 "DISALLOWED_FILE_OPERATION" \in failed
           /\ (\E i \in 1..Len(tree) : NetworkViolation(tree[i])) =>
                 "DISALLOWED_NETWORK_OPERATION" \in failed
           /\ (\E i \in 1..Len(tree) : PatternViolation(tree[i])) =>
                 "DANGEROUS_PATTERN" \in failed

\* `import os` followed by `x = eval(...)` was scanned and both were reported
C19_Witness ==
    /\ ScanReturned
    /\ scanned_code = SourceCode(TRUE, <<(<<AstImport(<<(<<"os">>)>>)>>),
                                         (<<AstCall(Func("Name", "eval"))>>)>>)
    /\ FailedNames(checks) = {"DISALLOWED_IMPORT", "DISALLOWED_BUILTIN"}
    /\ response = <<FALSE>>

\* no node of the tree is a violation of any of the five categories
ZeroViolations(tree) ==
    /\ ImportedBases(tree) \subseteq (allowed_imports \ blocked_imports)
    /\ \A i \in 1..Len(tree) :
          /\ ~BuiltinViolation(tree[i])
          /\ ~FileViolation(tree[i])
          /\ ~NetworkViolation(tree[i])
          /\ ~PatternViolation(tree[i])

ViolationCount(tree) ==
    Len(ImportViolations(tree))
    + Len(SelectSeq(tree, BuiltinViolation))
    + Len(SelectSeq(tree, FileViolation))
    + Len(SelectSeq(tree, NetworkViolation))
    + Len(SelectSeq(tree, PatternViolation))

\* C21: after a scan of a source with n violations the report holds at least
\* n error entries, one per violation.
C21_EveryViolationReported ==
    (ScanReturned /\ scanned_code.parses) =>
        Len(get_overall_errors(checks)) >= ViolationCount(ast_walk(scanned_code.body))

\* C22: generate_report called twice with no record call in between returns
\* identical checks, identical overallErrors and the same verified value, and
\* a generate_report call changes nothing in the ReportGenerator.
C22_GenerateReportIsRepeatable ==
    [][ (pc = "report" /\ calls' # <<>> /\ calls'[1].fn = "generate_report") =>
          /\ checks' = checks
          /\ start_time' = start_time
          /\ end_time' = end_time
          /\ (calls # <<>> /\ calls[1].fn = "generate_report") =>
                /\ validation_report'[1].checks = validation_report[1].checks
                /\ validation_report'[1].overallErrors = validation_report[1].overallErrors
                /\ validation_report'[1].verified = validation_report[1].verified ]_vars

\* a report with a failed check was generated by a call that left the checks
\* as they were
C22_Witness ==
    /\ pc = "report"
    /\ calls = <<Call("generate_report", <<"test_model">>)>>
    /\ FailedNames(checks) = {"securityScan"}
    /\ validation_report # <<>>
    /\ validation_report[1].checks = checks
    /\ validation_report[1].overallErrors =
          <<(<<"securityScan", ": ", "Blocked method found">>)>>

\* C23: no add_check_passed, add_check_failed or add_warning call made after
\* generate_report changes the checks of the report already returned.
C23_ReturnedReportImmutable ==
    [][ (pc = "report" /\ validation_report # <<>>
         /\ calls'[1].fn \in {"add_check_passed", "add_check_failed", "add_warning"}) =>
            validation_report'[1].checks = validation_report[1].checks ]_vars

\* the constant pool holds a field reference of the watch-list
HasWatchedField(cf) ==
    \E i \in 1..Len(cf.constants) :
        /\ cf.constants[i].kind = "Field"
        /\ cf.constants[i].class_name \o <<".", cf.constants[i].member>>
              \in suspicious_fields

\* C24: a class whose only policy hits are field references of the watch-list
\* passes scan_class_file: the scan returns True, records bytecode_safety_scan
\* as passed, and records the hit as a warning on a check whose passed is
\* true, so the report stays verified.
C24_WatchedFieldIsWarningOnly ==
    (ScannerReturned("scan_class_file") /\ ParsesAsClass(model_class_bytes)
        /\ HasWatchedField(model_class_bytes)
        /\ ~HasBlockedReference(model_class_bytes)) =>
        /\ response = <<TRUE>>
        /\ "bytecode_safety_scan" \in PassedNames(checks)
        /\ FailedNames(checks) = {}
        /\ HasCheck(checks, "SUSPICIOUS_FIELD_ACCESS")
        /\ checks[IndexOf(checks, "SUSPICIOUS_FIELD_ACCESS")].result.passed
        /\ checks[IndexOf(checks, "SUSPICIOUS_FIELD_ACCESS")].result.warning # None
        /\ is_verified(checks)

\* a class that reads System.out was scanned under a policy that does not block
\* java/lang/System, and passed with the warning recorded
C24_Witness ==
    /\ ScannerReturned("scan_class_file")
    /\ HasWatchedField(model_class_bytes)
    /\ ~HasBlockedReference(model_class_bytes)
    /\ response = <<TRUE>>
    /\ PassedNames(checks) = {"SUSPICIOUS_FIELD_ACCESS", "bytecode_safety_scan"}

\* C25: when the source imports a module that is in the block set and not in
\* the allow set, the scan records a DISALLOWED_IMPORT failure and also an
\* IMPORT_NOT_WHITELISTED failure.
C25_BlockedImportFlaggedTwice ==
    (ScanReturned /\ scanned_code.parses
        /\ (ImportedBases(ast_walk(scanned_code.body)) \cap blocked_imports)
              \ allowed_imports # {}) =>
        {"DISALLOWED_IMPORT", "IMPORT_NOT_WHITELISTED"} \subseteq FailedNames(checks)

\* C26: every direct call of __import__ is flagged by _check_builtin_calls,
\* whether or not __import__ is in blocked_builtins.
C26_DynamicImportAlwaysFlagged ==
    (ScanReturned /\ scanned_code.parses
        /\ \E i \in 1..Len(ast_walk(scanned_code.body)) :
              /\ ast_walk(scanned_code.body)[i].type = "Call"
              /\ ast_walk(scanned_code.body)[i].func = Func("Name", "__import__")) =>
        /\ "DISALLOWED_BUILTIN" \in FailedNames(checks)
        /\ response = <<FALSE>>

\* C27: a run that ends with status INVALID has at least one check with
\* passed = false, and its report has a non-empty overallErrors: no gate halts
\* the pipeline without recording the failure.
C27_InvalidHasFailedCheck ==
    status = "INVALID" =>
        /\ pc \in {"complete", "write_dynamodb", "done"}
        /\ FailedNames(checks) # {}
        /\ validation_report # <<>> =>
              /\ validation_report[1].overallErrors # <<>>
              /\ ~validation_report[1].verified

\* a bundle without any class file was answered INVALID with the structure
\* failure in the report
C27_Witness ==
    /\ Completed
    /\ status = "INVALID"
    /\ FailedNames(checks) = {"NO_CLASS_FILES"}
    /\ Len(validation_report[1].overallErrors) = 1

\* the archive entry find_model_class returned the bytes of (the first entry
\* whose path ends with the class name's path)
RECURSIVE FirstPathEndingWith(_, _)
FirstPathEndingWith(files, suffix) ==
    IF files = <<>> THEN <<>>
    ELSE IF EndsWith(Head(files).path, suffix) THEN Head(files).path
    ELSE FirstPathEndingWith(Tail(files), suffix)

PrimaryPath ==
    FirstPathEndingWith(extracted_files.files,
                        Replace(model_class, ".", <<"/">>) \o <<".class">>)

\* the .class entries of the bundle that no scan_class_file call was made for
UnscannedClassFiles ==
    {i \in 1..Len(extracted_files.files) :
        LET f == extracted_files.files[i]
        IN /\ EndsWith(f.path, <<".class">>)
           /\ f.path # PrimaryPath
           /\ ~\E j \in 1..Len(calls) : calls[j] = Call("scan_class_file", f.path)}

\* C28: in a run that ends with status VALID every .class entry of the
\* extracted bundle was passed to scan_class_file (as the primary class or in
\* the helper loop).
C28_EveryClassFileScanned ==
    status = "VALID" => UnscannedClassFiles = {}

\* the helper loop was handed an entry whose scan returns False
HelperScanFailed ==
    \E j \in 1..Len(calls) : \E i \in 1..Len(extracted_files.files) :
        /\ calls[j] = Call("scan_class_file", extracted_files.files[i].path)
        /\ ~scan_class_file(<<>>, extracted_files.files[i].content).ok

\* a scan_class_file call of the helper loop that returned True, made after
\* one that returned False
PassAfterFailedScan ==
    \E j, k \in 1..Len(calls) : \E i, l \in 1..Len(extracted_files.files) :
        /\ j < k
        /\ calls[j] = Call("scan_class_file", extracted_files.files[i].path)
        /\ ~scan_class_file(<<>>, extracted_files.files[i].content).ok
        /\ calls[k] = Call("scan_class_file", extracted_files.files[l].path)
        /\ scan_class_file(<<>>, extracted_files.files[l].content).ok

\* C29: within one run, once the report contains a failed check it keeps it
\* and is_verified() stays false up to the generated report: a failed helper
\* scan is still in the report after the later passes of the loop, and no step
\* of the pipeline removes a failed entry.
C29_FailedCheckSticks ==
    /\ [](HelperScanFailed \/ status = "INVALID" =>
             /\ FailedNames(checks) # {}
             /\ ~is_verified(checks)
             /\ validation_report # <<>> => ~validation_report[1].verified)
    /\ [][FailedNames(checks) \subseteq FailedNames(checks')]_vars

\* a helper scan failed, a later scan of the loop recorded its pass, and the
\* generated report is unverified
C29_Witness ==
    /\ Completed
    /\ PassAfterFailedScan
    /\ HasCheck(checks, "bytecode_safety_scan")
    /\ FailedNames(checks) # {}
    /\ ~validation_report[1].verified

\* _complete_validation returned and the registry write of the run did not
\* complete (no put_item reached the table)
RegistryWriteRaised ==
    /\ Completed
    /\ ~\E i \in 1..Len(tables) : tables[i] = "put_item"

\* C30: in _complete_validation the upload-status update_item is attempted
\* only after the registry write completed without error: when
\* _write_to_model_registry raises, no status update is made in that run, the
\* error is logged and the response is still returned.
C30_UpdateOnlyAfterRegistryWrite ==
    /\ \A i \in 1..Len(tables) :
          tables[i] = "update_item" => \E j \in 1..(i - 1) : tables[j] = "put_item"
    /\ RegistryWriteRaised =>
          /\ ~\E i \in 1..Len(tables) : tables[i] = "update_item"
          /\ \E j \in 1..Len(calls) : calls[j].fn = "logger.error"
          /\ response[1].statusCode = 200
          /\ response[1].body.report = validation_report

\* a run whose registry write raised: nothing was written, the exception was
\* logged and the 200 response carries the report
C30_Witness ==
    /\ RegistryWriteRaised
    /\ tables = <<>>
    /\ calls[Len(calls)] = Call("logger.error", <<"KeyError">>)
    /\ response[1].statusCode = 200
    /\ response[1].body.status = "VALID"

====
